---- MODULE Spec2Model ----
(***************************************************************************)
(* CrimeCity3K: the drill-down query engine behind /api/events, the       *)
(* category taxonomy, the staged-write pipeline runs and the aggregation  *)
(* they publish.                                                          *)
(***************************************************************************)
EXTENDS Integers, Sequences, FiniteSets, TLC

VARIABLES
    events_parquet,  \* data/events.parquet: [exists, rows]
    phase,           \* lifespan of the application: "created", "serving", "stopped", "failed"
    db,              \* app.state.db: "unset", "none", "open" or "closed"
    request,         \* the last request served
    response,        \* its response
    earlier,         \* the answer to the request for the page before, when kept
    hierarchy,       \* the listing /api/types answered with
    lookup,          \* a category lookup: the type label and the answers so far
    mapping,         \* a category mapping definition and what loading it gave
    args,            \* the arguments of a pipeline run and the files it reads
    pc,              \* the position of the pipeline run
    raised,          \* the exception the run ended with, "none" if none
    conn,            \* the run's DuckDB connection: "none", "open", "leaked", "closed"
    output_file,     \* the file at the run's output path
    temp_file,       \* the file at output_file.with_suffix(".tmp")
    calls            \* the calls the run has made outside the process, in order

apiVars == <<events_parquet, phase, db, request, response, earlier, hierarchy>>
taxonomyVars == <<lookup, mapping>>
pipelineVars == <<args, pc, raised, conn, output_file, temp_file, calls>>
vars == <<events_parquet, phase, db, request, response, earlier, hierarchy, lookup, mapping,
          args, pc, raised, conn, output_file, temp_file, calls>>

(***************************************************************************)
(* Bounds of the model.                                                    *)
(***************************************************************************)
MaxEvents == 2

(***************************************************************************)
(* api/categories.py                                                       *)
(***************************************************************************)
NamedCategories ==
    {"traffic", "property", "violence", "narcotics", "fraud", "public_order", "weapons"}

CATEGORY_TYPES ==
    [cat \in NamedCategories |->
        CASE cat = "traffic" ->
                {"Trafikolycka, personskada", "Trafikolycka, smitning",
                 "Trafikolycka, singel", "Trafikolycka, övrigt",
                 "Trafikbrott, övriga", "Rattfylleri", "Olovlig körning"}
          [] cat = "property" ->
                {"Stöld", "Stöld/inbrott", "Tillgrepp, stöld", "Inbrott",
                 "Skadegörelse", "Rån", "Rån, övrigt", "Rån väpnat"}
          [] cat = "violence" ->
                {"Misshandel", "Misshandel, grov", "Våld/hot mot tjänsteman",
                 "Våldtäkt", "Våldtäkt, försök", "Mord/dråp, försök", "Mord/dråp"}
          [] cat = "narcotics" -> {"Narkotikabrott"}
          [] cat = "fraud" -> {"Bedrägeri", "Bedrägeri, ocker"}
          [] cat = "public_order" ->
                {"Ordningslagen", "Fylleri", "Ofredande/förargelse", "Brand",
                 "Alkohollagen", "Övriga brott mot person"}
          [] cat = "weapons" -> {"Vapenlagen"}]

\* The reverse mapping built by the module-level loop: type -> category.
TYPE_TO_CATEGORY ==
    [t \in UNION {CATEGORY_TYPES[cat] : cat \in DOMAIN CATEGORY_TYPES} |->
        CHOOSE cat \in DOMAIN CATEGORY_TYPES : t \in CATEGORY_TYPES[cat]]

get_category(event_type) ==
    IF event_type \in DOMAIN TYPE_TO_CATEGORY
    THEN TYPE_TO_CATEGORY[event_type]
    ELSE "other"

get_all_categories ==
    <<"traffic", "property", "violence", "narcotics", "fraud", "public_order",
      "weapons", "other">>

(***************************************************************************)
(* Values of the model: cell ids are sequences of characters, optional    *)
(* parameters are sets with at most one element (None is {}).             *)
(***************************************************************************)
HexDigits ==
    {"0", "1", "2", "3", "4", "5", "6", "7", "8", "9",
     "a", "b", "c", "d", "e", "f", "A", "B", "C", "D", "E", "F"}

CellA == <<"8", "5", "0", "e", "3", "5", "a", "3", "f", "f", "f", "f", "f", "f", "f">>
CellB == <<"8", "5", "2", "8", "3", "4", "7", "3", "f", "f", "f", "f", "f", "f", "f">>
CellShort == <<"t", "e", "s", "t">>
CellNotHex == <<"i", "n", "v", "a", "l", "i", "d", "_", "c", "e", "l", "l", "_", "i", "d">>
CellNewline == Append(CellA, "\n")

H3_CELL_LENGTH == 15

\* re.compile(r"^[0-9a-fA-F]{15}$").match: "$" also matches before a final newline.
is_valid_h3_cell(h3_cell) ==
    /\ Len(h3_cell) \in {H3_CELL_LENGTH, H3_CELL_LENGTH + 1}
    /\ \A i \in 1..H3_CELL_LENGTH : h3_cell[i] \in HexDigits
    /\ Len(h3_cell) = H3_CELL_LENGTH + 1 => h3_cell[H3_CELL_LENGTH + 1] = "\n"

None == {}
Some(v) == {v}
Get(opt) == CHOOSE v \in opt : TRUE

\* Python truthiness of an optional string or sequence parameter.
TruthySeq(opt) == opt # None /\ Get(opt) # <<>>
TruthyStr(opt) == opt # None /\ Get(opt) # ""

\* str.lower() on the location names of the model.
LOWER(s) ==
    CASE s \in {"Lund", "LUND", "lund"} -> "lund"
      [] s \in {"Visby", "VISBY", "visby"} -> "visby"
      [] s \in {"Gotland", "gotland"} -> "gotland"
      [] s \in {"Skåne", "skåne"} -> "skåne"
      [] OTHER -> s

\* The inputs the requests and the rows are drawn from.
Pages == {1, 2}
PerPages == {1, 2}

\* The stored text of a timestamp, as in "2024-01-21 7:12:20 +01:00": the date
\* is zero-padded and of fixed width, so it compares as the day; the rest is
\* compared character by character, by code point.
Ord(c) ==
    CASE c = " " -> 32
      [] c = "+" -> 43
      [] c = "0" -> 48
      [] c = "1" -> 49
      [] c = "2" -> 50
      [] c = "3" -> 51
      [] c = "5" -> 53
      [] c = "7" -> 55
      [] c = "9" -> 57
      [] c = ":" -> 58
      [] c = "T" -> 84

RECURSIVE CharsLess(_, _)
CharsLess(a, b) ==
    IF b = <<>> THEN FALSE
    ELSE IF a = <<>> THEN TRUE
    ELSE IF Ord(Head(a)) # Ord(Head(b)) THEN Ord(Head(a)) < Ord(Head(b))
    ELSE CharsLess(Tail(a), Tail(b))

TextLess(a, b) == a.date < b.date \/ (a.date = b.date /\ CharsLess(a.rest, b.rest))

\* date.isoformat()
isoformat(d) == [date |-> d, rest |-> <<>>]

\* The times of day of the model, as written in the feed and as parsed by
\* strptime(..., "%Y-%m-%d %H:%M:%S").
Times ==
    <<[chars |-> <<"7", ":", "1", "2", ":", "2", "0">>, hour |-> 7, minute |-> 12, second |-> 20],
      [chars |-> <<"1", "0", ":", "3", "0", ":", "0", "0">>, hour |-> 10, minute |-> 30, second |-> 0],
      [chars |-> <<"2", "3", ":", "5", "9", ":", "5", "9">>, hour |-> 23, minute |-> 59, second |-> 59]>>

StoredText(d, t) ==
    [date |-> d, rest |-> <<" ">> \o Times[t].chars \o <<" ", "+", "0", "1", ":", "0", "0">>]

\* The timestamps of the rows: a day and a time of day.
Timestamps == <<[day |-> 1, time |-> 1], [day |-> 1, time |-> 2], [day |-> 2, time |-> 3]>>

\* The text up to the time zone, parsed into a datetime.
strptime(text) ==
    LET k == CHOOSE i \in DOMAIN Timestamps :
                 StoredText(Timestamps[i].day, Timestamps[i].time) = text
    IN  [day |-> Timestamps[k].day, hour |-> Times[Timestamps[k].time].hour,
         minute |-> Times[Timestamps[k].time].minute,
         second |-> Times[Timestamps[k].time].second]

EventTypes == <<"Stöld", "Rattfylleri", "Okänd händelse">>
Places ==
    <<[h3_cell |-> CellA, location_name |-> "Lund"],
      [h3_cell |-> CellB, location_name |-> "Visby"]>>

(***************************************************************************)
(* The rows of data/events.parquet.                                        *)
(***************************************************************************)
RowChoices ==
    {[stamp |-> d, place |-> p, type |-> t] :
        d \in 1..Len(Timestamps), p \in 1..Len(Places), t \in 1..Len(EventTypes)}

\* Event ids are opaque: rows are listed in one canonical order.
RowAssignments ==
    LET Rank(c) == (c.type * 100 + c.place) * 100 + c.stamp
    IN  UNION {{f \in [1..n -> RowChoices] :
                    \A i \in 1..n : \A j \in 1..n : i < j => Rank(f[i]) <= Rank(f[j])}
               : n \in 0..MaxEvents}

RowsOf(f) ==
    {[datetime |-> StoredText(Timestamps[f[i].stamp].day, Timestamps[f[i].stamp].time),
      event_id |-> i,
      h3_cell |-> Places[f[i].place].h3_cell,
      has_coordinates |-> TRUE,
      location_name |-> Places[f[i].place].location_name,
      type |-> EventTypes[f[i].type]] : i \in DOMAIN f}

(***************************************************************************)
(* api/main.py: init_database                                              *)
(***************************************************************************)
\* CREATE TABLE events AS SELECT ... without the WHERE clause.
init_database_without_where(rows) == rows

\* CREATE TABLE events AS SELECT ... WHERE latitude IS NOT NULL AND longitude IS NOT NULL
init_database(rows) == {e \in rows : e.has_coordinates}

events_table == IF db = "open" THEN init_database(events_parquet.rows) ELSE {}

(***************************************************************************)
(* api/queries.py: query_events                                            *)
(***************************************************************************)
\* The index of api/fts.py covers type, summary and html_body; a row of the
\* model carries its type as its only text.
FtsTerms(type) ==
    CASE type = "Stöld" -> {"stöld"}
      [] type = "Rattfylleri" -> {"rattfylleri"}
      [] OTHER -> {}

match_bm25_not_null(e, search) == search \in FtsTerms(e.type)

ScopeError(h3_cell, location_name) ==
    IF TruthySeq(h3_cell) /\ TruthyStr(location_name) THEN "both"
    ELSE IF ~TruthySeq(h3_cell) /\ ~TruthyStr(location_name) THEN "neither"
    ELSE IF TruthySeq(h3_cell) /\ ~is_valid_h3_cell(Get(h3_cell)) THEN "invalid"
    ELSE "none"

ScopeCondition(e, h3_cell, location_name) ==
    IF TruthySeq(h3_cell)
    THEN e.h3_cell = Get(h3_cell)
    ELSE LOWER(e.location_name) = LOWER(Get(location_name))

\* "datetime >= ?" with start_date.isoformat(), and "datetime < ?" with
\* end_date.isoformat() + "T23:59:59", both comparisons of text.
StartCondition(e, start_date) ==
    start_date # None => ~TextLess(e.datetime, isoformat(Get(start_date)))

\* "datetime < ?" with end_date.isoformat() alone.
EndConditionBeforeDay(e, end_date) ==
    end_date # None => TextLess(e.datetime, isoformat(Get(end_date)))

EndCondition(e, end_date) ==
    end_date # None =>
        TextLess(e.datetime,
                 [date |-> Get(end_date),
                  rest |-> <<"T", "2", "3", ":", "5", "9", ":", "5", "9">>])

allowed_types(categories) ==
    UNION {CATEGORY_TYPES[cat] : cat \in categories \cap DOMAIN CATEGORY_TYPES}

CategoryCondition(e, categories) ==
    allowed_types(categories) # {} => e.type \in allowed_types(categories)

TypeCondition(e, types) == types # {} => e.type \in types

\* search.strip() is empty exactly for whitespace-only text.
FtsCondition(e, search) ==
    (TruthyStr(search) /\ Get(search) \notin {"", " ", "  "})
        => match_bm25_not_null(e, Get(search))

Where(table, req) ==
    {e \in table :
        /\ ScopeCondition(e, req.h3_cell, req.location_name)
        /\ StartCondition(e, req.start_date)
        /\ EndCondition(e, req.end_date)
        /\ CategoryCondition(e, req.categories)
        /\ TypeCondition(e, req.types)
        /\ FtsCondition(e, req.search)}

\* ORDER BY datetime DESC: every order of the rows with non-increasing
\* timestamps; rows with equal timestamps come in any order.
OrderByDatetimeDesc(rows) ==
    {s \in [1..Cardinality(rows) -> rows] :
        /\ \A i \in DOMAIN s : \A j \in DOMAIN s : i # j => s[i] # s[j]
        /\ \A i \in DOMAIN s : \A j \in DOMAIN s : i < j => ~TextLess(s[i].datetime, s[j].datetime)}

\* LIMIT ? OFFSET ?
LimitOffset(s, limit, offset) ==
    IF offset >= Len(s) THEN <<>>
    ELSE SubSeq(s, offset + 1, IF offset + limit < Len(s) THEN offset + limit ELSE Len(s))

EventDict(row) ==
    [category |-> get_category(row.type),
     coordinates |-> IF row.has_coordinates THEN "floats" ELSE "null",
     event_datetime |-> strptime(row.datetime),
     event_id |-> row.event_id,
     h3_cell |-> row.h3_cell,
     location_name |-> row.location_name,
     type |-> row.type]

BuildEvents(s) == [i \in DOMAIN s |-> EventDict(s[i])]

\* query_events with the count taken from the rows of the page.
query_events_count_of_page(table, req) ==
    LET matching == Where(table, req)
        offset == (req.page - 1) * req.per_page
    IN  {[events |-> BuildEvents(LimitOffset(s, req.per_page, offset)),
          page |-> req.page,
          per_page |-> req.per_page,
          total |-> Len(LimitOffset(s, req.per_page, offset))]
            : s \in OrderByDatetimeDesc(matching)}

\* The results query_events can return for a request that passes its checks.
query_events(table, req) ==
    LET matching == Where(table, req)
        total == Cardinality(matching)
        offset == (req.page - 1) * req.per_page
    IN  {[events |-> BuildEvents(LimitOffset(s, req.per_page, offset)),
          page |-> req.page,
          per_page |-> req.per_page,
          total |-> total]
            : s \in OrderByDatetimeDesc(matching)}

(***************************************************************************)
(* Requests.                                                               *)
(***************************************************************************)
PER_PAGE_MAX == 100

CellInputs == {CellA, CellB, CellShort, CellNotHex}
LocationInputs == {"lund", "LUND", "Visby"}
CategoryInputs == {{}, {"property"}, {"other"}, {"property", "other"}}
TypeInputs == {{}, {"Stöld"}, {"Rattfylleri"}}
DateInputs == {None} \cup {Some(d) : d \in {1, 2}}
SearchInputs == {None, Some("stöld"), Some("  ")}

Filters(categories, end_date, search, start_date, types) ==
    [categories |-> categories, end_date |-> end_date, search |-> search,
     start_date |-> start_date, types |-> types]

NoFilters == Filters({}, None, None, None, {})

MakeRequest(via, h3_cell, location_name, f, page, per_page) ==
    [categories |-> f.categories, end_date |-> f.end_date, h3_cell |-> h3_cell,
     location_name |-> location_name, page |-> page, per_page |-> per_page,
     search |-> f.search, start_date |-> f.start_date, types |-> f.types,
     via |-> via]

NoRequest == MakeRequest("none", None, None, NoFilters, 1, 1)

ErrorResponse(status, queries) ==
    [events |-> <<>>, page |-> 0, per_page |-> 0, queries |-> queries,
     status |-> status, total |-> 0]

NoResponse == ErrorResponse("none", 0)

\* count_sql and events_sql: the two statements query_events executes.
OkResponse(status, result) ==
    [events |-> result.events, page |-> result.page, per_page |-> result.per_page,
     queries |-> 2, status |-> status, total |-> result.total]

(***************************************************************************)
(* api/main.py: get_events, behind FastAPI's validation of the declared   *)
(* query parameters (h3_cell: required str; page >= 1; 1 <= per_page <=   *)
(* 100). The handler declares no location_name parameter.                 *)
(***************************************************************************)
ValidationError(req) ==
    \/ req.h3_cell = None
    \/ req.page < 1
    \/ req.per_page < 1
    \/ req.per_page > PER_PAGE_MAX

\* What the handler passes on to query_events: location_name is not among it.
HandlerArguments(req) ==
    MakeRequest(req.via, req.h3_cell, None, req, req.page, req.per_page)

\* The handler without the dependency on get_db.
get_events_without_get_db(req) ==
    IF ValidationError(req) THEN {ErrorResponse("422", 0)}
    ELSE IF ~is_valid_h3_cell(Get(req.h3_cell)) THEN {ErrorResponse("400", 0)}
    ELSE IF ScopeError(HandlerArguments(req).h3_cell, HandlerArguments(req).location_name) # "none"
         THEN {ErrorResponse("400", 0)}
    ELSE {OkResponse("200", r) : r \in query_events(events_table, HandlerArguments(req))}

get_events(req) ==
    IF ValidationError(req) THEN {ErrorResponse("422", 0)}
    ELSE IF ~is_valid_h3_cell(Get(req.h3_cell)) THEN {ErrorResponse("400", 0)}
    ELSE IF db # "open" THEN {ErrorResponse("503", 0)}
    ELSE IF ScopeError(HandlerArguments(req).h3_cell, HandlerArguments(req).location_name) # "none"
         THEN {ErrorResponse("400", 0)}
    ELSE {OkResponse("200", r) : r \in query_events(events_table, HandlerArguments(req))}

\* query_events called with the open connection.
call_query_events(req) ==
    IF ScopeError(req.h3_cell, req.location_name) # "none"
    THEN {ErrorResponse("ValueError", 0)}
    ELSE {OkResponse("returned", r) : r \in query_events(events_table, req)}

(***************************************************************************)
(* api/queries.py: get_type_hierarchy; api/main.py: get_types. A listing   *)
(* maps each category to the types under it.                               *)
(***************************************************************************)
NoHierarchy == [cat \in NamedCategories \cup {"other"} |-> {}]

\* The listing with every type of the table under "other".
get_type_hierarchy_unclassified(table) ==
    [cat \in DOMAIN NoHierarchy |->
        IF cat = "other" THEN {e.type : e \in table} ELSE CATEGORY_TYPES[cat]]

\* hierarchy["other"]: of SELECT DISTINCT type FROM events, the types that
\* get_category maps to "other".
get_type_hierarchy(table) ==
    [cat \in DOMAIN NoHierarchy |->
        IF cat = "other"
        THEN {t \in {e.type : e \in table} : get_category(t) = "other"}
        ELSE CATEGORY_TYPES[cat]]

\* get_db raises HTTPException while app.state.db is unset or None.
get_types ==
    IF db = "open"
    THEN get_type_hierarchy(events_table)
    ELSE [cat \in DOMAIN NoHierarchy |->
             IF cat = "other" THEN {} ELSE CATEGORY_TYPES[cat]]

(***************************************************************************)
(* event_types.py: the taxonomy loaded from data/event_types.toml. The     *)
(* file maps each Swedish type label to its category; it lists the types   *)
(* of api/categories.py and the types the tests name, one of them          *)
(* ("Övrigt") under the category other.                                    *)
(***************************************************************************)
CATEGORIES ==
    <<"traffic", "property", "violence", "narcotics", "fraud", "public_order",
      "weapons", "other">>

CategoryNames == {CATEGORIES[i] : i \in DOMAIN CATEGORIES}

load_event_types ==
    [t \in DOMAIN TYPE_TO_CATEGORY
              \cup {"Trafikolycka", "Trafikkontroll", "Motorfordon, stöld", "Olaga hot",
                    "Övrigt"} |->
        CASE t \in {"Trafikolycka", "Trafikkontroll"} -> "traffic"
          [] t = "Motorfordon, stöld" -> "property"
          [] t = "Olaga hot" -> "violence"
          [] t = "Övrigt" -> "other"
          [] OTHER -> TYPE_TO_CATEGORY[t]]

\* The lookup by subscript: a label that is not in the file raises KeyError.
event_types_get_category_by_subscript(event_type) ==
    IF event_type \in DOMAIN load_event_types
    THEN load_event_types[event_type]
    ELSE "KeyError"

event_types_get_category(event_type) ==
    IF event_type \in DOMAIN load_event_types
    THEN load_event_types[event_type]
    ELSE "other"

\* Every type is listed under every category.
get_category_types_ungrouped ==
    [cat \in CategoryNames |-> DOMAIN load_event_types]

get_category_types ==
    [cat \in CategoryNames |->
        {swedish \in DOMAIN load_event_types : load_event_types[swedish] = cat}]

\* The type labels looked up: those of the taxonomy, an unknown one, the empty one.
TypeLabels == DOMAIN load_event_types \cup {"Okänd händelse", ""}

(***************************************************************************)
(* config.py: a category mapping definition (category_mapping.toml) and    *)
(* CategoryMapping.from_file. A definition is missing, is not TOML, or is  *)
(* a TOML document with a set of category tables; a table may lack its     *)
(* name or its types.                                                      *)
(***************************************************************************)
MappingFile(kind, has_categories, categories) ==
    [kind |-> kind, has_categories |-> has_categories, categories |-> categories]

CategoryTable(id, name, types) == [id |-> id, name |-> name, types |-> types]

\* One type per category, as in the definition the tests load.
MappingTypes ==
    [cat \in CategoryNames |->
        CASE cat = "traffic" -> "Rattfylleri"
          [] cat = "property" -> "Stöld"
          [] cat = "violence" -> "Misshandel"
          [] cat = "narcotics" -> "Narkotikabrott"
          [] cat = "fraud" -> "Bedrägeri"
          [] cat = "public_order" -> "Fylleri"
          [] cat = "weapons" -> "Vapenlagen"
          [] cat = "other" -> "Övrigt"]

ValidTables == {CategoryTable(cat, Some(cat), Some(<<MappingTypes[cat]>>)) : cat \in CategoryNames}

TablesWith(table) == {t \in ValidTables : t.id # table.id} \cup {table}

MappingFiles ==
    {MappingFile("missing", FALSE, {}), MappingFile("not_toml", FALSE, {}),
     MappingFile("toml", FALSE, {}), MappingFile("toml", TRUE, ValidTables)}
    \cup {MappingFile("toml", TRUE, {t \in ValidTables : t.id # cat}) : cat \in CategoryNames}
    \cup {MappingFile("toml", TRUE, TablesWith(CategoryTable(cat, Some(cat), Some(<<>>))))
             : cat \in CategoryNames}
    \cup {MappingFile("toml", TRUE,
                TablesWith(CategoryTable(cat, Some(cat), Some(<<MappingTypes[cat], "Stöld">>))))
             : cat \in CategoryNames \ {"property"}}
    \cup {MappingFile("toml", TRUE, TablesWith(CategoryTable(cat, None, Some(<<MappingTypes[cat]>>))))
             : cat \in {"traffic"}}
    \cup {MappingFile("toml", TRUE, TablesWith(CategoryTable(cat, Some(cat), None)))
             : cat \in {"traffic"}}

\* Category and CategoryMapping as Pydantic validates them: the categories
\* table is there, and every category has a name and a list of types.
ModelValidates(file) ==
    /\ file.has_categories
    /\ \A t \in file.categories : t.name # None /\ t.types # None

Loaded(error, object) == [raised |-> error, object |-> object]

from_file(file) ==
    IF file.kind = "missing" THEN Loaded("CategoryMappingError", None)
    ELSE IF file.kind = "not_toml" THEN Loaded("CategoryMappingError", None)
    ELSE IF ~ModelValidates(file) THEN Loaded("CategoryMappingError", None)
    ELSE Loaded("none", Some(file.categories))

NoMapping == [definition |-> MappingFile("none", FALSE, {}), result |-> Loaded("unset", None)]

NoLookup == [event_type |-> "", api |-> "unset", event_types |-> "unset", grouped |-> {"unset"}]

(***************************************************************************)
(* The files of a pipeline run. A file is absent, holds an earlier         *)
(* publication, is partly written, or holds the rows a statement wrote.    *)
(***************************************************************************)
Absent == [kind |-> "absent", rows |-> {}]
Previous == [kind |-> "previous", rows |-> {}]
Partial == [kind |-> "partial", rows |-> {}]
Written(rows) == [kind |-> "written", rows |-> rows]
Unused == [kind |-> "unused", rows |-> {}]

MaxInputEvents == 2
DEFAULT_MIN_POPULATION_THRESHOLD == 100
MinPopulationThresholds == {DEFAULT_MIN_POPULATION_THRESHOLD, 3 * DEFAULT_MIN_POPULATION_THRESHOLD}

\* Location names are sequences of words, so that LIKE '% län' is a test on
\* the last word.
LowerWords(name) == [i \in DOMAIN name |-> LOWER(name[i])]
IsCountyLevel(name) == Len(name) >= 2 /\ name[Len(name)] = "län"

\* Where an event happened: its cell at the run's resolution and its name.
EventPlaces ==
    <<[h3_cell |-> CellA, location_name |-> <<"Lund">>],
      [h3_cell |-> CellA, location_name |-> <<"LUND">>],
      [h3_cell |-> CellB, location_name |-> <<"Visby">>],
      [h3_cell |-> CellB, location_name |-> <<"Skåne", "län">>]>>

InputChoices ==
    {[place |-> p, type |-> t] : p \in 1..Len(EventPlaces), t \in 1..Len(EventTypes)}

\* The rows of an events file, up to the order of the rows.
InputAssignments ==
    LET InputRank(c) == c.type * 100 + c.place
    IN  UNION {{f \in [1..n -> InputChoices] :
                   \A i \in 1..n : \A j \in 1..n : i < j => InputRank(f[i]) <= InputRank(f[j])}
               : n \in 0..MaxInputEvents}

InputEvents(f) ==
    {[event_id |-> i,
      h3_cell |-> EventPlaces[f[i].place].h3_cell,
      location_name |-> EventPlaces[f[i].place].location_name,
      type |-> EventTypes[f[i].type]] : i \in DOMAIN f}

EventsFiles == {Absent} \cup {Written(InputEvents(f)) : f \in InputAssignments}

\* Population per cell (data/h3/population_r{N}.parquet).
CellPopulationFiles ==
    {Absent}
        \cup {Written({[h3_cell |-> CellA, population |-> a]} \cup b)
                : a \in {50, 200}, b \in {{}, {[h3_cell |-> CellB, population |-> 100]}}}
        \cup {Written(b) : b \in {{}, {[h3_cell |-> CellB, population |-> 100]}}}

\* Population per municipality (data/municipalities/population.parquet).
MunicipalityPopulationFiles ==
    {Absent, Written({})}
        \cup {Written({[kommun_kod |-> "1281", kommun_namn |-> <<"Lund">>, population |-> a],
                       [kommun_kod |-> "0980", kommun_namn |-> <<"Gotland">>, population |-> 200]})
                : a \in {0, 200}}

\* Population per 1 km square, each square with the cell of its centroid
\* (the SCB grid read by convert_population_to_h3).
SquareFiles ==
    {Absent}
        \cup {Written(sq) : sq \in SUBSET {[square |-> 1, h3_cell |-> CellA, population |-> 50],
                                            [square |-> 2, h3_cell |-> CellA, population |-> 200],
                                            [square |-> 3, h3_cell |-> CellB, population |-> 100]}}

(***************************************************************************)
(* The statements of sql/population_to_h3.sql, sql/h3_aggregation.sql and  *)
(* sql/municipality_aggregation.sql, as functions from the rows they read  *)
(* to the rows they write.                                                 *)
(***************************************************************************)
RECURSIVE SumOf(_, _)
SumOf(rows, field) ==
    IF rows = {} THEN 0
    ELSE LET r == CHOOSE x \in rows : TRUE
         IN r[field] + SumOf(rows \ {r}, field)

NamedTypes(category_types) ==
    UNION {category_types[cat] : cat \in DOMAIN category_types \ {"other"}}

\* One count per category: the CASE over the named categories' type lists,
\* its ELSE branch counting as other.
category_counts(evs, category_types) ==
    [cat \in CategoryNames |->
        IF cat = "other"
        THEN Cardinality({e \in evs : e.type \notin NamedTypes(category_types)})
        ELSE IF cat \in DOMAIN category_types
             THEN Cardinality({e \in evs : e.type \in category_types[cat]})
             ELSE 0]

\* Events per 10,000 residents. The populations of the model divide
\* total_count * 10000 evenly, so the quotient is exact.
rate_per_10000(total_count, population, min_population) ==
    IF population > 0 /\ population >= min_population
    THEN (total_count * 10000) \div population
    ELSE 0

AggregateRecord(h3_cell, kommun_kod, kommun_namn, evs, category_types, population, min_population) ==
    [h3_cell |-> h3_cell,
     kommun_kod |-> kommun_kod,
     kommun_namn |-> kommun_namn,
     total_count |-> Cardinality(evs),
     category_counts |-> category_counts(evs, category_types),
     population |-> population,
     rate_per_10000 |-> rate_per_10000(Cardinality(evs), population, min_population)]

population_to_h3(squares) ==
    {[h3_cell |-> c, population |-> SumOf({s \in squares : s.h3_cell = c}, "population")]
        : c \in {s.h3_cell : s \in squares}}

\* COALESCE(population, 0) over the LEFT JOIN of the event cells with the
\* population cells.
CellPopulation(population, h3_cell) ==
    IF \E p \in population : p.h3_cell = h3_cell
    THEN (CHOOSE p \in population : p.h3_cell = h3_cell).population
    ELSE 0

\* The JOIN instead of the LEFT JOIN: only cells with a population row.
h3_aggregation_inner_join(evs, population, min_population) ==
    {AggregateRecord(c, "", <<>>, {e \in evs : e.h3_cell = c}, CATEGORY_TYPES,
                     CellPopulation(population, c), min_population)
        : c \in {e.h3_cell : e \in evs} \cap {p.h3_cell : p \in population}}

h3_aggregation(evs, population, min_population) ==
    {AggregateRecord(c, "", <<>>, {e \in evs : e.h3_cell = c}, CATEGORY_TYPES,
                     CellPopulation(population, c), min_population)
        : c \in {e.h3_cell : e \in evs}}

\* The same name, compared without LOWER.
MunicipalityEventsCaseSensitive(evs, kommun_namn) ==
    {e \in evs : /\ ~IsCountyLevel(e.location_name)
                 /\ e.location_name = kommun_namn}

\* The events of a municipality: not county-level, and of the same name
\* whatever the case.
MunicipalityEvents(evs, kommun_namn) ==
    {e \in evs : /\ ~IsCountyLevel(e.location_name)
                 /\ LowerWords(e.location_name) = LowerWords(kommun_namn)}

\* The JOIN instead of the LEFT JOIN: only municipalities with events.
municipality_aggregation_with_events(evs, population, category_types) ==
    {AggregateRecord(<<>>, m.kommun_kod, m.kommun_namn,
                     MunicipalityEvents(evs, m.kommun_namn),
                     category_types, m.population, 1)
        : m \in {n \in population : MunicipalityEvents(evs, n.kommun_namn) # {}}}

\* One record per municipality of the population file, with or without events.
municipality_aggregation(evs, population, category_types) ==
    {AggregateRecord(<<>>, m.kommun_kod, m.kommun_namn,
                     MunicipalityEvents(evs, m.kommun_namn),
                     category_types, m.population, 1)
        : m \in population}

(***************************************************************************)
(* h3_processing.py, municipality_processing.py: the parameters each       *)
(* function renders its statement with, and the rows the statement writes. *)
(***************************************************************************)
PipelineFunctions ==
    {"convert_population_to_h3", "aggregate_events_to_h3", "aggregate_events_to_municipalities"}

NoRun ==
    [fn |-> "none", events_file |-> Unused, population_file |-> Unused,
     min_population_threshold |-> DEFAULT_MIN_POPULATION_THRESHOLD, published |-> Absent]

\* The threshold is left out of the parameters.
H3ParamsWithoutThreshold(a) ==
    [events_file |-> a.events_file, population_file |-> a.population_file,
     min_population |-> 0]

H3Params(a) ==
    [events_file |-> a.events_file, population_file |-> a.population_file,
     min_population |-> a.min_population_threshold]

MunicipalityParams(a) ==
    [events_file |-> a.events_file, population_file |-> a.population_file,
     category_types |-> get_category_types]

\* The input files the function requires to exist.
InputFiles(a) ==
    IF a.fn = "convert_population_to_h3"
    THEN {a.population_file}
    ELSE {a.events_file, a.population_file}

qck(a) ==
    CASE a.fn = "convert_population_to_h3" ->
            population_to_h3(a.population_file.rows)
      [] a.fn = "aggregate_events_to_h3" ->
            LET params == H3Params(a)
            IN h3_aggregation(params.events_file.rows, params.population_file.rows,
                              params.min_population)
      [] OTHER ->
            LET params == MunicipalityParams(a)
            IN municipality_aggregation(params.events_file.rows, params.population_file.rows,
                                        params.category_types)

(***************************************************************************)
(* Actions of the application.                                             *)
(***************************************************************************)
\* lifespan, up to the yield: init_database raises FileNotFoundError, which
\* lifespan catches, or returns the connection, or fails after duckdb.connect
\* with the engine's error (an extension that cannot be installed or loaded),
\* which ends the startup.
Startup ==
    /\ phase = "created"
    /\ request = NoRequest
    /\ \/ /\ ~events_parquet.exists
          /\ phase' = "serving"
          /\ db' = "none"
          /\ UNCHANGED calls
       \/ /\ events_parquet.exists
          /\ phase' = "serving"
          /\ db' = "open"
          /\ calls' = Append(calls, "duckdb.connect")
       \/ /\ events_parquet.exists
          /\ phase' = "failed"
          /\ db' = "unset"
          /\ calls' = Append(calls, "duckdb.connect")
    /\ UNCHANGED <<taxonomyVars, args, pc, raised, conn, output_file, temp_file,
                   earlier, hierarchy, events_parquet, request, response>>

\* lifespan, after the yield, leaving the connection as it is.
ShutdownWithoutClose ==
    /\ phase = "serving"
    /\ request = NoRequest
    /\ phase' = "stopped"
    /\ UNCHANGED <<pipelineVars, taxonomyVars, earlier, hierarchy, events_parquet,
                   db, request, response>>

\* lifespan, after the yield.
Shutdown ==
    /\ phase = "serving"
    /\ request = NoRequest
    /\ phase' = "stopped"
    /\ db' = IF db = "open" THEN "closed" ELSE db
    /\ calls' = IF db = "open" THEN Append(calls, "close") ELSE calls
    /\ UNCHANGED <<taxonomyVars, args, pc, raised, conn, output_file, temp_file,
                   earlier, hierarchy, events_parquet, request, response>>

Serve(req) ==
    /\ request' = req
    /\ response' \in get_events(req)
    /\ UNCHANGED <<pipelineVars, taxonomyVars, earlier, hierarchy, events_parquet, phase, db>>

\* GET /api/events with a cell scope and any filters.
GetEvents ==
    /\ phase \in {"created", "serving"}
    /\ request = NoRequest
    /\ \E categories \in CategoryInputs : \E end_date \in DateInputs :
       \E search \in SearchInputs : \E start_date \in DateInputs :
       \E types \in TypeInputs : \E page \in Pages : \E per_page \in PerPages :
          Serve(MakeRequest("http", Some(CellA), None,
                            Filters(categories, end_date, search, start_date, types),
                            page, per_page))

\* GET /api/events with any combination of the scope parameters.
GetEventsScope ==
    /\ phase \in {"created", "serving"}
    /\ request = NoRequest
    /\ \E h3 \in {None} \cup {Some(c) : c \in CellInputs} :
       \E loc \in {None} \cup {Some(l) : l \in LocationInputs} :
       \E types \in TypeInputs :
       \E page \in {0, 1} : \E per_page \in {0, 1, PER_PAGE_MAX, PER_PAGE_MAX + 1} :
          Serve(MakeRequest("http", h3, loc, Filters({}, None, None, None, types),
                            page, per_page))

Call(req) ==
    /\ request' = req
    /\ response' \in call_query_events(req)
    /\ UNCHANGED <<pipelineVars, taxonomyVars, earlier, hierarchy, events_parquet, phase, db>>

\* query_events called with the open connection and a location scope.
QueryEvents ==
    /\ db = "open"
    /\ request = NoRequest
    /\ \E loc \in {Some(l) : l \in LocationInputs} :
       \E categories \in CategoryInputs : \E end_date \in DateInputs :
       \E search \in SearchInputs : \E start_date \in DateInputs :
       \E types \in TypeInputs : \E page \in Pages : \E per_page \in PerPages :
          Call(MakeRequest("call", None, loc,
                           Filters(categories, end_date, search, start_date, types),
                           page, per_page))

\* query_events called with any combination of the scope parameters.
QueryEventsScope ==
    /\ db = "open"
    /\ request = NoRequest
    /\ \E h3 \in {None} \cup {Some(c) : c \in CellInputs} :
       \E loc \in {None, Some(""), Some("lund")} :
       \E types \in TypeInputs :
          Call(MakeRequest("call", h3, loc, Filters({}, None, None, None, types), 1, 1))

\* The response reaches the caller.
Deliver ==
    /\ request # NoRequest
    /\ request' = NoRequest
    /\ response' = NoResponse
    /\ hierarchy' = NoHierarchy
    /\ UNCHANGED <<pipelineVars, taxonomyVars, earlier, events_parquet, phase, db>>

Init ==
    /\ events_parquet \in
          {[exists |-> FALSE, rows |-> {}]}
              \cup {[exists |-> TRUE, rows |-> RowsOf(f)] : f \in RowAssignments}
    /\ phase = "created"
    /\ db = "unset"
    /\ request = NoRequest
    /\ response = NoResponse
    /\ earlier = NoResponse
    /\ hierarchy = NoHierarchy
    /\ lookup = NoLookup
    /\ mapping = NoMapping
    /\ args = NoRun
    /\ pc = "idle"
    /\ raised = "none"
    /\ conn = "none"
    /\ output_file = Absent
    /\ temp_file = Absent
    /\ calls = <<>>

Next ==
    \/ Startup
    \/ Shutdown
    \/ GetEvents
    \/ GetEventsScope
    \/ QueryEvents
    \/ QueryEventsScope
    \/ Deliver

Spec == Init /\ [][Next]_vars

(***************************************************************************)
(* Category lookups: one type label, looked up through api/categories.py   *)
(* and through event_types.py.                                             *)
(***************************************************************************)
ApiGetCategory ==
    /\ lookup.event_type \in TypeLabels
    /\ lookup.api = "unset"
    /\ lookup' = [event_type |-> lookup.event_type,
                  api |-> get_category(lookup.event_type),
                  event_types |-> lookup.event_types,
                  grouped |-> lookup.grouped]
    /\ UNCHANGED <<apiVars, pipelineVars, mapping>>

EventTypesGetCategory ==
    /\ lookup.event_type \in TypeLabels
    /\ lookup.event_types = "unset"
    /\ lookup' = [event_type |-> lookup.event_type,
                  api |-> lookup.api,
                  event_types |-> event_types_get_category(lookup.event_type),
                  grouped |-> lookup.grouped]
    /\ UNCHANGED <<apiVars, pipelineVars, mapping>>

\* The categories whose list in get_category_types() holds the label.
GetCategoryTypes ==
    /\ lookup.event_type \in TypeLabels
    /\ lookup.grouped = {"unset"}
    /\ lookup' = [event_type |-> lookup.event_type,
                  api |-> lookup.api,
                  event_types |-> lookup.event_types,
                  grouped |-> {cat \in DOMAIN get_category_types :
                                  lookup.event_type \in get_category_types[cat]}]
    /\ UNCHANGED <<apiVars, pipelineVars, mapping>>

ApiIdle ==
    /\ events_parquet = [exists |-> FALSE, rows |-> {}]
    /\ phase = "created"
    /\ db = "unset"
    /\ request = NoRequest
    /\ response = NoResponse
    /\ earlier = NoResponse
    /\ hierarchy = NoHierarchy

PipelineIdle ==
    /\ args = NoRun
    /\ pc = "idle"
    /\ raised = "none"
    /\ conn = "none"
    /\ output_file = Absent
    /\ temp_file = Absent
    /\ calls = <<>>

InitTaxonomy ==
    /\ lookup \in {[event_type |-> t, api |-> "unset", event_types |-> "unset",
                    grouped |-> {"unset"}] : t \in TypeLabels}
    /\ mapping = NoMapping
    /\ ApiIdle
    /\ PipelineIdle

\* CategoryMapping.from_file on one definition.
LoadCategoryMapping ==
    /\ mapping = NoMapping
    /\ \E file \in MappingFiles :
          mapping' = [definition |-> file, result |-> from_file(file)]
    /\ UNCHANGED <<apiVars, pipelineVars, lookup>>

NextTaxonomy ==
    \/ ApiGetCategory
    \/ EventTypesGetCategory
    \/ GetCategoryTypes
    \/ LoadCategoryMapping

SpecTaxonomy == InitTaxonomy /\ [][NextTaxonomy]_vars

(***************************************************************************)
(* Two requests against the unchanged store: page 1, then page 2 of the    *)
(* same scope, filters and per_page.                                       *)
(***************************************************************************)
Answer(req) == IF req.via = "http" THEN get_events(req) ELSE call_query_events(req)

FirstPage ==
    /\ db = "open"
    /\ request = NoRequest
    /\ \E scope \in {[via |-> "http", h3_cell |-> Some(CellA), location_name |-> None],
                     [via |-> "call", h3_cell |-> None, location_name |-> Some("lund")]} :
       \E categories \in CategoryInputs : \E types \in TypeInputs : \E per_page \in PerPages :
          LET req == MakeRequest(scope.via, scope.h3_cell, scope.location_name,
                                 Filters(categories, None, None, None, types), 1, per_page)
          IN  /\ request' = req
              /\ response' \in Answer(req)
    /\ UNCHANGED <<pipelineVars, taxonomyVars, earlier, hierarchy, events_parquet, phase, db>>

NextPage ==
    /\ db = "open"
    /\ request # NoRequest
    /\ request.page = 1
    /\ LET req == MakeRequest(request.via, request.h3_cell, request.location_name,
                              request, 2, request.per_page)
       IN  /\ request' = req
           /\ response' \in Answer(req)
    /\ earlier' = response
    /\ UNCHANGED <<pipelineVars, taxonomyVars, hierarchy, events_parquet, phase, db>>

InitPaging ==
    /\ events_parquet \in {[exists |-> TRUE, rows |-> RowsOf(f)] : f \in RowAssignments}
    /\ phase = "serving"
    /\ db = "open"
    /\ request = NoRequest
    /\ response = NoResponse
    /\ earlier = NoResponse
    /\ hierarchy = NoHierarchy
    /\ lookup = NoLookup
    /\ mapping = NoMapping
    /\ PipelineIdle

NextPaging ==
    \/ FirstPage
    \/ NextPage

SpecPaging == InitPaging /\ [][NextPaging]_vars

(***************************************************************************)
(* A run of convert_population_to_h3, aggregate_events_to_h3 or            *)
(* aggregate_events_to_municipalities, one action per step.                *)
(***************************************************************************)
\* The existence checks of the input files.
CheckInputs ==
    /\ args.fn \in PipelineFunctions
    /\ pc = "start"
    /\ IF \E f \in InputFiles(args) : f.kind = "absent"
       THEN raised' = "FileNotFoundError" /\ pc' = "done"
       ELSE raised' = raised /\ pc' = "mkdir"
    /\ UNCHANGED <<apiVars, taxonomyVars, args, conn, output_file, temp_file, calls>>

\* output_file.parent.mkdir(parents=True, exist_ok=True), outside the try.
MakeOutputDir ==
    /\ args.fn \in PipelineFunctions
    /\ pc = "mkdir"
    /\ \E ok \in BOOLEAN :
          IF ok
          THEN raised' = raised /\ pc' = "connect"
          ELSE raised' = "OSError" /\ pc' = "done"
    /\ calls' = Append(calls, "mkdir")
    /\ UNCHANGED <<apiVars, taxonomyVars, args, conn, output_file, temp_file>>

\* create_configured_connection, outside the try: when a SET or a LOAD
\* raises, the connection it opened is not closed.
Connect ==
    /\ args.fn \in PipelineFunctions
    /\ pc = "connect"
    /\ \/ conn' = "open" /\ raised' = raised /\ pc' = "execute"
       \/ conn' \in {"none", "leaked"} /\ raised' = "duckdb.Error" /\ pc' = "done"
    /\ calls' = Append(calls, "duckdb.connect")
    /\ UNCHANGED <<apiVars, taxonomyVars, args, output_file, temp_file>>

\* The statement writes straight to the output path.
ExecuteInPlace ==
    /\ args.fn \in PipelineFunctions
    /\ pc = "execute"
    /\ \/ output_file' = Written(qck(args)) /\ pc' = "stats"
       \/ output_file' \in {output_file, Partial} /\ pc' = "except"
    /\ calls' = Append(calls, "qck")
    /\ UNCHANGED <<apiVars, taxonomyVars, args, raised, conn, temp_file>>

\* qck(sql_path, params, connection): the statement writes the temp file.
Execute ==
    /\ args.fn \in PipelineFunctions
    /\ pc = "execute"
    /\ \/ temp_file' = Written(qck(args)) /\ pc' = "rename"
       \/ temp_file' \in {temp_file, Partial} /\ pc' = "except"
    /\ calls' = Append(calls, "qck")
    /\ UNCHANGED <<apiVars, taxonomyVars, args, raised, conn, output_file>>

\* temp_file.rename(output_file)
Rename ==
    /\ args.fn \in PipelineFunctions
    /\ pc = "rename"
    /\ \/ output_file' = temp_file /\ temp_file' = Absent /\ pc' = "stats"
       \/ UNCHANGED <<output_file, temp_file>> /\ pc' = "except"
    /\ calls' = Append(calls, "rename")
    /\ UNCHANGED <<apiVars, taxonomyVars, args, raised, conn>>

\* The summary queries over the output file and the log line. SUM over no
\* rows is None, and formatting None with "," raises TypeError.
LogResult ==
    /\ args.fn \in PipelineFunctions
    /\ pc = "stats"
    /\ \E ok \in BOOLEAN :
          IF ok /\ output_file.rows # {}
          THEN pc' = "finally"
          ELSE pc' = "except"
    /\ calls' = Append(calls, "execute")
    /\ UNCHANGED <<apiVars, taxonomyVars, args, raised, conn, output_file, temp_file>>

\* The handler that leaves the temp file where it is.
ExceptWithoutUnlink ==
    /\ args.fn \in PipelineFunctions
    /\ pc = "except"
    /\ raised' = "RuntimeError"
    /\ pc' = "finally"
    /\ UNCHANGED <<apiVars, taxonomyVars, args, conn, output_file, temp_file, calls>>

\* except Exception: remove the temp file if it exists, raise RuntimeError.
Except ==
    /\ args.fn \in PipelineFunctions
    /\ pc = "except"
    /\ temp_file' = IF temp_file.kind # "absent" THEN Absent ELSE temp_file
    /\ calls' = IF temp_file.kind # "absent" THEN Append(calls, "unlink") ELSE calls
    /\ raised' = "RuntimeError"
    /\ pc' = "finally"
    /\ UNCHANGED <<apiVars, taxonomyVars, args, conn, output_file>>

\* finally: conn.close()
Finally ==
    /\ args.fn \in PipelineFunctions
    /\ pc = "finally"
    /\ conn' = "closed"
    /\ calls' = Append(calls, "close")
    /\ pc' = "done"
    /\ UNCHANGED <<apiVars, taxonomyVars, args, raised, output_file, temp_file>>

RunArguments ==
    {[fn |-> "convert_population_to_h3", events_file |-> Unused, population_file |-> p,
      min_population_threshold |-> DEFAULT_MIN_POPULATION_THRESHOLD, published |-> o]
        : p \in SquareFiles, o \in {Absent, Previous}}
    \cup
    {[fn |-> "aggregate_events_to_h3", events_file |-> e, population_file |-> p,
      min_population_threshold |-> m, published |-> o]
        : e \in EventsFiles, p \in CellPopulationFiles,
          m \in MinPopulationThresholds, o \in {Absent, Previous}}
    \cup
    {[fn |-> "aggregate_events_to_municipalities", events_file |-> e, population_file |-> p,
      min_population_threshold |-> m, published |-> o]
        : e \in EventsFiles, p \in MunicipalityPopulationFiles,
          m \in MinPopulationThresholds, o \in {Absent, Previous}}

InitPipeline ==
    /\ args \in RunArguments
    /\ pc = "start"
    /\ raised = "none"
    /\ conn = "none"
    /\ output_file = args.published
    /\ temp_file = Absent
    /\ calls = <<>>
    /\ lookup = NoLookup
    /\ mapping = NoMapping
    /\ ApiIdle

NextPipeline ==
    \/ CheckInputs
    \/ MakeOutputDir
    \/ Connect
    \/ Execute
    \/ Rename
    \/ LogResult
    \/ Except
    \/ Finally

SpecPipeline == InitPipeline /\ [][NextPipeline]_vars

(***************************************************************************)
(* municipality_tiles.py, pmtiles.py: the export of the municipality       *)
(* aggregate to GeoJSONL and the generation of a tile archive with         *)
(* tippecanoe, one action per step. A GeoJSONL file is the set of its      *)
(* numbered lines.                                                         *)
(***************************************************************************)
MaxBoundaries == 2

BoundaryFeatures ==
    <<[id |-> "1281", kom_namn |-> <<"Lund">>],
      [id |-> "0980", kom_namn |-> <<"Gotland">>],
      [id |-> "0184", kom_namn |-> <<"Solna">>]>>

\* boundaries["features"]: the features of a boundaries file, in file order.
BoundarySequences ==
    UNION {[1..n -> {BoundaryFeatures[i] : i \in DOMAIN BoundaryFeatures}] : n \in 0..MaxBoundaries}

Lines(features) == {[line |-> i, feature |-> features[i]] : i \in DOMAIN features}

BoundariesFiles == {Absent} \cup {Written(Lines(b)) : b \in BoundarySequences}

\* The municipality aggregates the export reads: the output of
\* aggregate_events_to_municipalities.
AggregateFiles ==
    {Absent} \cup
    {Written(municipality_aggregation(e.rows, p.rows, get_category_types))
        : e \in {f \in EventsFiles : f.kind = "written"},
          p \in {f \in MunicipalityPopulationFiles : f.kind = "written"}}

\* events_lookup.get(kommun_kod): the row of the code, None without one.
events_lookup_get(rows, kommun_kod) == {r \in rows : r.kommun_kod = kommun_kod}

get_int(row, value, default) == IF row # None THEN value ELSE default

Properties(boundary_feature, row) ==
    [kommun_kod |-> boundary_feature.id,
     kommun_namn |-> boundary_feature.kom_namn,
     total_count |-> get_int(row, Get(row).total_count, 0),
     category_counts |-> [cat \in CategoryNames |->
                             get_int(row, Get(row).category_counts[cat], 0)],
     population |-> get_int(row, Get(row).population, 0)]

FeaturesOf(file) == [i \in 1..Cardinality(file.rows) |->
                        (CHOOSE l \in file.rows : l.line = i).feature]

RECURSIVE SelectFeatures(_, _)
SelectFeatures(features, rows) ==
    IF features = <<>> THEN <<>>
    ELSE IF events_lookup_get(rows, Head(features).id) = None
         THEN SelectFeatures(Tail(features), rows)
         ELSE <<Head(features)>> \o SelectFeatures(Tail(features), rows)

\* Only the boundaries with a row in the aggregate are written.
geojsonl_features_with_events(boundaries, events) ==
    LET features == SelectFeatures(FeaturesOf(boundaries), events.rows)
    IN  [i \in DOMAIN features |->
            Properties(features[i], events_lookup_get(events.rows, features[i].id))]

\* The lines written: one feature per boundary feature, in file order.
geojsonl_features(boundaries, events) ==
    LET features == FeaturesOf(boundaries)
    IN  [i \in DOMAIN features |->
            Properties(features[i], events_lookup_get(events.rows, features[i].id))]

TileFunctions == {"generate_pmtiles", "generate_municipality_pmtiles"}

TileRun(fn, boundaries_file, events_file, input_file, installed, published) ==
    [fn |-> fn, boundaries_file |-> boundaries_file, events_file |-> events_file,
     input_file |-> input_file, installed |-> installed, published |-> published]

\* sql/h3_to_geojson.sql: one feature per row of the aggregated table.
h3_to_geojson(rows) ==
    {[h3_cell |-> r.h3_cell, total_count |-> r.total_count,
      category_counts |-> r.category_counts, population |-> r.population,
      rate_per_10000 |-> r.rate_per_10000] : r \in rows}

ExportFunctions == {"export_municipalities_to_geojsonl", "export_h3_to_geojson"}

\* What the export writes to its temp file.
ExportContent(a) ==
    IF a.fn = "export_h3_to_geojson"
    THEN h3_to_geojson(a.events_file.rows)
    ELSE Lines(geojsonl_features(a.boundaries_file, a.events_file))

\* The existence checks of the boundaries file and of the aggregate.
ExportCheckInputs ==
    /\ args.fn = "export_municipalities_to_geojsonl"
    /\ pc = "start"
    /\ IF args.boundaries_file.kind = "absent" \/ args.events_file.kind = "absent"
       THEN raised' = "FileNotFoundError" /\ pc' = "done"
       ELSE raised' = raised /\ pc' = "load"
    /\ UNCHANGED <<apiVars, taxonomyVars, args, conn, output_file, temp_file, calls>>

\* json.load of the boundaries, the read of the aggregate on a connection
\* of its own, and output_file.parent.mkdir, all outside the try.
ExportLoad ==
    /\ args.fn \in ExportFunctions
    /\ pc = "load"
    /\ \/ /\ conn' = "closed" /\ raised' = raised /\ pc' = "write"
          /\ calls' = calls \o <<"json.load", "duckdb.connect", "close", "mkdir">>
       \/ /\ conn' = "none" /\ raised' = "JSONDecodeError" /\ pc' = "done"
          /\ calls' = calls \o <<"json.load">>
       \/ /\ conn' = "leaked" /\ raised' = "duckdb.Error" /\ pc' = "done"
          /\ calls' = calls \o <<"json.load", "duckdb.connect">>
       \/ /\ conn' = "closed" /\ raised' = "OSError" /\ pc' = "done"
          /\ calls' = calls \o <<"json.load", "duckdb.connect", "close", "mkdir">>
    /\ UNCHANGED <<apiVars, taxonomyVars, args, output_file, temp_file>>

\* export_h3_to_geojson: output_file.parent.mkdir, outside the try. The
\* function checks no input and uses the caller's connection.
ExportH3MakeDir ==
    /\ args.fn = "export_h3_to_geojson"
    /\ pc = "start"
    /\ \E ok \in BOOLEAN :
          IF ok
          THEN raised' = raised /\ pc' = "write"
          ELSE raised' = "OSError" /\ pc' = "done"
    /\ calls' = Append(calls, "mkdir")
    /\ UNCHANGED <<apiVars, taxonomyVars, args, conn, output_file, temp_file>>

\* The loop over boundaries["features"] (or the COPY of h3_to_geojson.sql),
\* writing the temp file.
ExportWrite ==
    /\ args.fn \in ExportFunctions
    /\ pc = "write"
    /\ \/ temp_file' = Written(ExportContent(args)) /\ pc' = "rename"
       \/ temp_file' \in {temp_file, Partial} /\ pc' = "except"
    /\ calls' = Append(calls, "write")
    /\ UNCHANGED <<apiVars, taxonomyVars, args, raised, conn, output_file>>

\* temp_file.rename(output_file)
ExportRename ==
    /\ args.fn \in ExportFunctions
    /\ pc = "rename"
    /\ \/ output_file' = temp_file /\ temp_file' = Absent /\ pc' = "stat"
       \/ UNCHANGED <<output_file, temp_file>> /\ pc' = "except"
    /\ calls' = Append(calls, "rename")
    /\ UNCHANGED <<apiVars, taxonomyVars, args, raised, conn>>

\* output_file.stat() and the log line.
ExportLog ==
    /\ args.fn \in ExportFunctions
    /\ pc = "stat"
    /\ \E ok \in BOOLEAN : pc' = IF ok THEN "done" ELSE "except"
    /\ calls' = Append(calls, "stat")
    /\ UNCHANGED <<apiVars, taxonomyVars, args, raised, conn, output_file, temp_file>>

\* except Exception: remove the temp file if it exists, raise RuntimeError.
ExportExcept ==
    /\ args.fn \in ExportFunctions
    /\ pc = "except"
    /\ temp_file' = IF temp_file.kind # "absent" THEN Absent ELSE temp_file
    /\ calls' = IF temp_file.kind # "absent" THEN Append(calls, "unlink") ELSE calls
    /\ raised' = "RuntimeError"
    /\ pc' = "done"
    /\ UNCHANGED <<apiVars, taxonomyVars, args, conn, output_file>>

\* The availability check made before the existence check.
TilesCheckToolFirst ==
    /\ args.fn \in TileFunctions
    /\ pc = "start"
    /\ calls' = Append(calls, "tippecanoe --version")
    /\ IF ~args.installed
       THEN raised' = "RuntimeError" /\ pc' = "done"
       ELSE IF args.input_file.kind = "absent"
            THEN raised' = "FileNotFoundError" /\ pc' = "done"
            ELSE raised' = raised /\ pc' = "tippecanoe"
    /\ UNCHANGED <<apiVars, taxonomyVars, args, conn, output_file, temp_file>>

\* The existence check of the input file, then the check that tippecanoe
\* is installed (subprocess.run of tippecanoe --version).
TilesCheck ==
    /\ args.fn \in TileFunctions
    /\ pc = "start"
    /\ IF args.input_file.kind = "absent"
       THEN raised' = "FileNotFoundError" /\ pc' = "done" /\ calls' = calls
       ELSE /\ calls' = Append(calls, "tippecanoe --version")
            /\ IF ~args.installed
               THEN raised' = "RuntimeError" /\ pc' = "done"
               ELSE raised' = raised /\ pc' = "tippecanoe"
    /\ UNCHANGED <<apiVars, taxonomyVars, args, conn, output_file, temp_file>>

\* subprocess.run of tippecanoe -o output_file --force ...: the tool is
\* given the output path itself and removes what is there. It exits 0
\* having written the archive (or nothing), or exits non-zero or is killed
\* before it touched the path, after it removed the archive, or while it
\* was writing it.
TilesRunTippecanoe ==
    /\ args.fn \in TileFunctions
    /\ pc = "tippecanoe"
    /\ \/ /\ output_file' \in {Written(args.input_file.rows), Absent}
          /\ pc' = "returncode_0"
       \/ /\ output_file' \in {output_file, Absent, Partial}
          /\ pc' \in {"returncode_1", "killed"}
    /\ calls' = calls \o <<"mkdir", "tippecanoe">>
    /\ UNCHANGED <<apiVars, taxonomyVars, args, raised, conn, temp_file>>

\* The checks of result.returncode and of output_file.exists().
TilesCheckResult ==
    /\ args.fn \in TileFunctions
    /\ pc \in {"returncode_0", "returncode_1"}
    /\ raised' = IF pc = "returncode_1" \/ output_file.kind = "absent"
                 THEN "RuntimeError"
                 ELSE raised
    /\ pc' = "done"
    /\ UNCHANGED <<apiVars, taxonomyVars, args, conn, output_file, temp_file, calls>>

TileArguments ==
    {TileRun("export_municipalities_to_geojsonl", b, e, Unused, TRUE, o)
        : b \in BoundariesFiles, e \in AggregateFiles, o \in {Absent, Previous}}
    \cup
    {TileRun("export_h3_to_geojson", Unused,
             Written(h3_aggregation(e.rows, {}, DEFAULT_MIN_POPULATION_THRESHOLD)),
             Unused, TRUE, o)
        : e \in {f \in EventsFiles : f.kind = "written"}, o \in {Absent, Previous}}
    \cup
    {TileRun(fn, Unused, Unused, i, installed, o)
        : fn \in TileFunctions,
          i \in {Absent} \cup {Written(Lines(geojsonl_features(b, Written({}))))
                                  : b \in BoundariesFiles \ {Absent}},
          installed \in BOOLEAN, o \in {Absent, Previous}}

InitTiles ==
    /\ args \in TileArguments
    /\ pc = "start"
    /\ raised = "none"
    /\ conn = "none"
    /\ output_file = args.published
    /\ temp_file = Absent
    /\ calls = <<>>
    /\ lookup = NoLookup
    /\ mapping = NoMapping
    /\ ApiIdle

NextTiles ==
    \/ ExportCheckInputs
    \/ ExportLoad
    \/ ExportH3MakeDir
    \/ ExportWrite
    \/ ExportRename
    \/ ExportLog
    \/ ExportExcept
    \/ TilesCheck
    \/ TilesRunTippecanoe
    \/ TilesCheckResult

SpecTiles == InitTiles /\ [][NextTiles]_vars

(***************************************************************************)
(* A run of any of the functions above.                                    *)
(***************************************************************************)
InitRuns == InitPipeline \/ InitTiles

NextRuns == NextPipeline \/ NextTiles

SpecRuns == InitRuns /\ [][NextRuns]_vars


(***************************************************************************)
(* Properties of the drill-down.                                           *)
(***************************************************************************)
PRIVACY_THRESHOLD == 3

Answered == response.status \in {"200", "returned"}

\* The arguments query_events received for the request served.
Received == IF request.via = "http" THEN HandlerArguments(request) ELSE request

\* The rows of the scope that pass every filter but the category filter.
InScopeAndOtherFilters ==
    {e \in events_table :
        /\ ScopeCondition(e, Received.h3_cell, Received.location_name)
        /\ StartCondition(e, Received.start_date)
        /\ EndCondition(e, Received.end_date)
        /\ TypeCondition(e, Received.types)
        /\ FtsCondition(e, Received.search)}

Min(a, b) == IF a < b THEN a ELSE b

\* C1: a query whose matching count is greater than 0 and below the privacy
\* threshold returns no events, while total reports that count.
C1_PrivacySuppression ==
    (Answered /\ response.total > 0 /\ response.total < PRIVACY_THRESHOLD)
        => response.events = <<>>

\* C2: with a non-empty category filter C, the events counted in total and
\* returned are exactly the events of the scope whose resolved category is in C.
C2_CategoryFilterExact ==
    (Answered /\ request.categories # {}) =>
        /\ response.total =
              Cardinality({e \in InScopeAndOtherFilters :
                              get_category(e.type) \in request.categories})
        /\ \A i \in DOMAIN response.events :
              response.events[i].category \in request.categories

C4_ScopeExclusivity ==
    (/\ request.via = "http"
     /\ (request.h3_cell = None) = (request.location_name = None))
        => (response.status = "400" /\ response.queries = 0)

(***************************************************************************)
(* Properties of the pipeline and the taxonomy.                            *)
(***************************************************************************)
Aggregated(fns) == args.fn \in fns /\ output_file.kind = "written"

SumCategoryCounts(r) ==
    r.category_counts["traffic"] + r.category_counts["property"]
        + r.category_counts["violence"] + r.category_counts["narcotics"]
        + r.category_counts["fraud"] + r.category_counts["public_order"]
        + r.category_counts["weapons"] + r.category_counts["other"]

SameName(a, b) == LowerWords(a) = LowerWords(b)

CountyEvents == {e \in args.events_file.rows : IsCountyLevel(e.location_name)}

\* The events that are not county-level and bear the name of no municipality
\* of the population file.
UnmatchedEvents ==
    {e \in args.events_file.rows \ CountyEvents :
        \A m \in args.population_file.rows : ~SameName(m.kommun_namn, e.location_name)}

\* C5: a pipeline run that ended by raising left the file at the output path
\* exactly as it was before the run (absent or the previous output); the
\* rename into place happened only in runs that returned.
C5_PublishOnlyOnSuccess ==
    (pc = "done" /\ raised # "none") => output_file = args.published

\* C6: in every record published by the grid and by the municipality
\* aggregation, the eight category counts sum to total_count.
C6_CategoryReconciliation ==
    Aggregated({"aggregate_events_to_h3", "aggregate_events_to_municipalities"})
        => \A r \in output_file.rows : SumCategoryCounts(r) = r.total_count

\* C6 witness: a published municipality record with two events, one of a
\* named category and one of a type in no category.
C6_Witness ==
    /\ Aggregated({"aggregate_events_to_municipalities"})
    /\ \E r \in output_file.rows :
          /\ r.total_count = 2
          /\ r.category_counts["property"] = 1
          /\ r.category_counts["other"] = 1

\* C7: a type label gets the same category from api/categories.py
\* (get_category) as from event_types.py (get_category, and the list of
\* get_category_types that holds it).
C7_SingleTaxonomy ==
    (lookup.api # "unset" /\ lookup.event_types # "unset" /\ lookup.grouped # {"unset"})
        => /\ lookup.api = lookup.event_types
           /\ lookup.grouped \subseteq {lookup.api}

C11_PageDisjointness ==
    (/\ request.page = 2
     /\ earlier.status \in {"200", "returned"}
     /\ response.status \in {"200", "returned"}
     /\ response.total > request.per_page)
        => {earlier.events[i].event_id : i \in DOMAIN earlier.events}
              \cap {response.events[i].event_id : i \in DOMAIN response.events} = {}

\* The day a stored timestamp falls on.
DayOf(e) == strptime(e.datetime).day

\* The rows of the scope that pass every filter but the date filters.
InScopeAndNonDateFilters ==
    {e \in events_table :
        /\ ScopeCondition(e, Received.h3_cell, Received.location_name)
        /\ CategoryCondition(e, Received.categories)
        /\ TypeCondition(e, Received.types)
        /\ FtsCondition(e, Received.search)}

C13_CategoryAndTypeIntersect ==
    (Answered /\ request.categories # {} /\ request.types # {})
        => \A i \in DOMAIN response.events :
              /\ response.events[i].type \in request.types
              /\ response.events[i].category \in request.categories

\* C14: with the database initialized, a request to /api/events with a
\* non-empty location_name and no h3_cell is answered 200, with total the
\* number of stored events of that location name whatever the case.
C14_LocationScopeOverHttp ==
    (/\ request.via = "http"
     /\ request.h3_cell = None
     /\ TruthyStr(request.location_name)
     /\ request.page >= 1
     /\ request.per_page >= 1
     /\ request.per_page <= PER_PAGE_MAX
     /\ db = "open")
        => /\ response.status = "200"
           /\ response.total = Cardinality(
                  {e \in events_table :
                      /\ LOWER(e.location_name) = LOWER(Get(request.location_name))
                      /\ TypeCondition(e, request.types)})

\* C15: while the data handle is absent, every /api/events request that
\* passes input validation is answered 503, and 503 answers nothing else.
C15_NotReady ==
    request.via = "http" =>
        /\ (/\ db \in {"unset", "none"}
            /\ ~ValidationError(request)
            /\ is_valid_h3_cell(Get(request.h3_cell)))
               => response.status = "503"
        /\ response.status = "503"
               => /\ db \in {"unset", "none"}
                  /\ ~ValidationError(request)
                  /\ is_valid_h3_cell(Get(request.h3_cell))

\* C15 witness: requests answered 503 before initialization ran, and after it
\* found no events file.
C15_Witness ==
    /\ request.via = "http"
    /\ response.status = "503"
    /\ phase = "serving"
    /\ db = "none"
    /\ ~events_parquet.exists

DefinedTypes(file) ==
    UNION {{<<t.id, Get(t.types)[i]>> : i \in DOMAIN Get(t.types)}
              : t \in {u \in file.categories : u.types # None}}

DuplicateType(file) ==
    \E a \in DefinedTypes(file) : \E b \in DefinedTypes(file) : a[1] # b[1] /\ a[2] = b[2]

EmptyCategory(file) == \E t \in file.categories : t.types = Some(<<>>)

MissingCategory(file) == {t.id : t \in file.categories} # CategoryNames

\* C17: loading a definition in which a type label is listed under two
\* categories, or a category has an empty type list, or one of the 8
\* categories is missing, raises CategoryMappingError and gives no mapping
\* object.
C17_LoadTimeValidation ==
    (/\ mapping.result.raised # "unset"
     /\ mapping.definition.kind = "toml"
     /\ \/ DuplicateType(mapping.definition)
        \/ EmptyCategory(mapping.definition)
        \/ MissingCategory(mapping.definition))
        => /\ mapping.result.raised = "CategoryMappingError"
           /\ mapping.result.object = None

C19_TileArchiveAtomicWrite ==
    (/\ args.fn \in TileFunctions
     /\ \/ pc = "killed"
        \/ pc = "done" /\ raised # "none")
        => output_file = args.published

Exported == args.fn = "export_municipalities_to_geojsonl" /\ pc = "done" /\ raised = "none"

\* C20: the export writes one feature per boundary feature, in the order
\* of the boundaries file; the feature of a boundary whose code has a
\* record in the aggregate has the record's total, eight category counts
\* and population, and the feature of a boundary without a record has 0
\* for every count and for the population.
C20_ExportLeftJoin ==
    Exported =>
        LET boundaries == FeaturesOf(args.boundaries_file)
        IN  /\ output_file.kind = "written"
            /\ {l.line : l \in output_file.rows} = DOMAIN boundaries
            /\ Cardinality(output_file.rows) = Len(boundaries)
            /\ \A l \in output_file.rows :
                  LET records == {r \in args.events_file.rows :
                                     r.kommun_kod = boundaries[l.line].id}
                  IN  /\ l.feature.kommun_kod = boundaries[l.line].id
                      /\ l.feature.kommun_namn = boundaries[l.line].kom_namn
                      /\ \A r \in records :
                            /\ l.feature.total_count = r.total_count
                            /\ l.feature.category_counts = r.category_counts
                            /\ l.feature.population = r.population
                      /\ records = {} =>
                            /\ l.feature.total_count = 0
                            /\ \A cat \in CategoryNames : l.feature.category_counts[cat] = 0
                            /\ l.feature.population = 0

\* C20 witness: an export of two boundaries, the first without a record in
\* the aggregate and the second with a record of one event.
C20_Witness ==
    /\ Exported
    /\ \E l \in output_file.rows :
          /\ l.line = 1
          /\ l.feature.kommun_kod = "0184"
          /\ l.feature.total_count = 0
    /\ \E l \in output_file.rows :
          /\ l.line = 2
          /\ l.feature.kommun_kod = "1281"
          /\ l.feature.total_count = 1
          /\ l.feature.population = 200

(***************************************************************************)
(* Properties of a run: its errors, its files and its connection.          *)
(***************************************************************************)
Staged == args.fn \in PipelineFunctions \cup ExportFunctions

\* A required input file of the run does not exist.
MissingInput ==
    CASE args.fn \in PipelineFunctions -> \E f \in InputFiles(args) : f.kind = "absent"
      [] args.fn = "export_municipalities_to_geojsonl" ->
            args.boundaries_file.kind = "absent" \/ args.events_file.kind = "absent"
      [] args.fn \in TileFunctions -> args.input_file.kind = "absent"
      [] OTHER -> FALSE

Count(call) == Cardinality({i \in DOMAIN calls : calls[i] = call})

\* The complete output of the run.
NewOutput ==
    IF args.fn \in PipelineFunctions THEN Written(qck(args)) ELSE Written(ExportContent(args))

\* C23: a pipeline or export run ends with no error, with the missing-file
\* error of its input checks, or with RuntimeError: every failure after the
\* input checks (the output directory, the connection and its extensions,
\* the reading of the inputs, the transformation, the rename) is raised as
\* RuntimeError.
C23_ErrorWrapping ==
    (Staged /\ pc = "done")
        => /\ raised \in {"none", "FileNotFoundError", "RuntimeError"}
           /\ raised = "FileNotFoundError" => MissingInput

\* C25: when a required input file does not exist, the run ends with the
\* missing-file error having made no call: no output directory, no temp
\* file, no connection, no run of tippecanoe (not even of its availability
\* check), and the output path as it was.
C25_MissingInputFailsFirst ==
    (MissingInput /\ pc # "start")
        => /\ pc = "done"
           /\ raised = "FileNotFoundError"
           /\ calls = <<>>
           /\ output_file = args.published
           /\ temp_file = Absent
           /\ conn = "none"

\* C25 witness: a tile generation without its input file and without
\* tippecanoe installed, ended with the missing-file error.
C25_Witness ==
    /\ args.fn \in TileFunctions
    /\ args.input_file.kind = "absent"
    /\ ~args.installed
    /\ pc = "done"
    /\ raised = "FileNotFoundError"

C30_ConnectionReleased ==
    (args.fn \in PipelineFunctions /\ pc = "done" /\ conn # "none")
        => conn = "closed" /\ Count("close") = 1

(***************************************************************************)
(* The application in service: an ASGI server runs lifespan up to its      *)
(* yield before it routes a request and the rest of it after the last one. *)
(* The events file may hold rows without coordinates, which have no cell.  *)
(***************************************************************************)
RowsWithout(f, missing) ==
    {[datetime |-> StoredText(Timestamps[f[i].stamp].day, Timestamps[f[i].stamp].time),
      event_id |-> i,
      h3_cell |-> IF i \in missing THEN <<>> ELSE Places[f[i].place].h3_cell,
      has_coordinates |-> i \notin missing,
      location_name |-> Places[f[i].place].location_name,
      type |-> EventTypes[f[i].type]] : i \in DOMAIN f}

\* GET /api/events with any text as the cell and any numbers as the page.
GetEventsCell ==
    /\ phase = "serving"
    /\ request = NoRequest
    /\ \E h3 \in {None} \cup {Some(c) : c \in CellInputs \cup {CellNewline}} :
       \E page \in {0, 1} : \E per_page \in {0, 1, PER_PAGE_MAX, PER_PAGE_MAX + 1} :
          Serve(MakeRequest("http", h3, None, NoFilters, page, per_page))

\* GET /api/types
GetTypes ==
    /\ phase = "serving"
    /\ request = NoRequest
    /\ request' = MakeRequest("types", None, None, NoFilters, 1, 1)
    /\ hierarchy' = get_types
    /\ UNCHANGED <<pipelineVars, taxonomyVars, earlier, events_parquet, phase, db, response>>

InitService ==
    /\ events_parquet \in
          {[exists |-> FALSE, rows |-> {}]}
              \cup UNION {{[exists |-> TRUE, rows |-> RowsWithout(f, missing)]
                              : missing \in SUBSET DOMAIN f} : f \in RowAssignments}
    /\ phase = "created"
    /\ db = "unset"
    /\ request = NoRequest
    /\ response = NoResponse
    /\ earlier = NoResponse
    /\ hierarchy = NoHierarchy
    /\ lookup = NoLookup
    /\ mapping = NoMapping
    /\ PipelineIdle

NextService ==
    \/ Startup
    \/ Shutdown
    \/ GetEventsCell
    \/ GetTypes
    \/ QueryEventsScope
    \/ Deliver

SpecService == InitService /\ [][NextService]_vars

(***************************************************************************)
(* Properties of the responses and of the application's data handle.       *)
(***************************************************************************)
\* The seconds of an event time since the first day of the model.
EventTime(t) == ((t.day * 24 + t.hour) * 60 + t.minute) * 60 + t.second

\* C22: the events of every response, with or without a search text, are
\* ordered most-recent-first by event time: of two consecutive events the
\* first is not earlier than the second.
C22_ResultOrder ==
    Answered =>
        \A i \in 1..(Len(response.events) - 1) :
            EventTime(response.events[i].event_datetime)
                >= EventTime(response.events[i + 1].event_datetime)

\* A cell id that is not exactly 15 hexadecimal characters.
MalformedCell(h3_cell) ==
    \/ Len(h3_cell) # H3_CELL_LENGTH
    \/ \E i \in DOMAIN h3_cell : h3_cell[i] \notin HexDigits

\* C24: a request to /api/events with a malformed cell id, page < 1,
\* per_page < 1 or per_page > 100 is answered with a client error (400 or
\* 422) and no statement has been executed on the store, whether or not the
\* data handle is initialized.
C24_ValidationPrecedesDataAccess ==
    (/\ request.via = "http"
     /\ \/ request.h3_cell # None /\ MalformedCell(Get(request.h3_cell))
        \/ request.page < 1
        \/ request.per_page < 1
        \/ request.per_page > PER_PAGE_MAX)
        => /\ response.status \in {"400", "422"}
           /\ response.queries = 0

\* The types of the rows of a table.
DistinctTypes(table) == {e.type : e \in table}

\* The types of the static taxonomy.
StaticTypes == UNION {CATEGORY_TYPES[cat] : cat \in DOMAIN CATEGORY_TYPES}

InScopeOfFile ==
    {e \in events_parquet.rows :
        \/ Received.h3_cell # None /\ e.h3_cell = Get(Received.h3_cell)
        \/ /\ Received.location_name # None
           /\ LOWER(e.location_name) = LOWER(Get(Received.location_name))}

\* C29: the events table holds exactly the rows of the events file that
\* have both coordinates; under a cell scope or a location scope the total
\* counts no row without coordinates, every returned event is a row with
\* coordinates and carries them.
C29_StoreExcludesNoCoordinates ==
    /\ db = "open" => events_table = {e \in events_parquet.rows : e.has_coordinates}
    /\ Answered =>
          /\ response.total <= Cardinality({e \in InScopeOfFile : e.has_coordinates})
          /\ \A i \in DOMAIN response.events :
                /\ response.events[i].coordinates = "floats"
                /\ \E e \in events_parquet.rows :
                      e.event_id = response.events[i].event_id /\ e.has_coordinates

\* An answer under a location scope in which the file has a row with
\* coordinates, which is returned, and a row without.
C29_Witness ==
    /\ Answered
    /\ Received.location_name # None
    /\ Len(response.events) >= 1
    /\ \E e \in InScopeOfFile : ~e.has_coordinates
====
